---- MODULE Spec2Model ----
\* Password Generator - Termux Edition (src/maincode.py).
\* A model of the PasswordGenerator object: its four generation methods, which
\* draw from the secrets module, and its strength evaluator.  A character is a
\* one-character string, a Python str is a sequence of characters.
EXTENDS Integers, Sequences, FiniteSets, TLC

\* ------------------------------------------------------------------ bounds

\* Largest length argument passed to generate_password and
\* generate_alphabetic_password, and to generate_pin.
MaxLen == 2

MaxPin == 3

\* Largest num_words argument passed to generate_memorable_password.
MaxWords == 2

\* The random source: of the draws of one call, at most MaxFree range over all
\* their outcomes; each other draw yields its least or greatest outcome.
MaxFree == 1

\* Passwords given to check_password_strength: a seed followed by up to MaxPad
\* copies of one character of PadChars; a seed is a listed password, a single
\* character, or any string of up to MaxSeed characters of SeedChars.
MaxSeed == 3

MaxPad == 16

\* Largest number of calls made in a row on one generator.
MaxCalls == 3

\* ------------------------------------------------- library constants (string)

ascii_lowercase ==
    <<"a", "b", "c", "d", "e", "f", "g", "h", "i", "j", "k", "l", "m", "n", "o", "p", "q", "r", "s", "t", "u", "v", "w", "x", "y", "z">>

ascii_uppercase ==
    <<"A", "B", "C", "D", "E", "F", "G", "H", "I", "J", "K", "L", "M", "N", "O", "P", "Q", "R", "S", "T", "U", "V", "W", "X", "Y", "Z">>

string_digits ==
    <<"0", "1", "2", "3", "4", "5", "6", "7", "8", "9">>

\* ------------------------------------------------------------------- state

VARIABLES
    lowercase,      \* self.lowercase
    uppercase,      \* self.uppercase
    digits,         \* self.digits
    special_chars,  \* self.special_chars
    pc,             \* "called" | "returned" | "raised": where the call stands
    op,             \* the method called
    args,           \* its arguments
    char_pool,      \* the characters the call drew from (the local char_pool)
    password,       \* the str a generator returned
    analysis,       \* the dict check_password_strength returned
    error,          \* the message of the ValueError raised ("" when none)
    log             \* history: the calls that returned to the caller, in order

vars ==
    << lowercase, uppercase, digits, special_chars,
       pc, op, args, char_pool, password, analysis, error, log >>

fields == << lowercase, uppercase, digits, special_chars >>

\* ------------------------------------------------------ python primitives

\* str.replace(c, ''): every occurrence of the character c removed.
Replace(chars, c) ==
    SelectSeq(chars, LAMBDA x : x # c)

\* secrets.randbelow(n): any integer of [0, n).
randbelow(n) ==
    0 .. (n - 1)

\* ''.join(secrets.choice(pool) for _ in range(length)) for the draws r, one
\* index per iteration; range(length) is empty for length <= 0.
JoinChoices(pool, length, r) ==
    [i \in 1 .. length |-> pool[r[i] + 1]]

\* seq.index(c), from 1.
IndexOf(seq, c) ==
    CHOOSE i \in 1 .. Len(seq) : seq[i] = c

\* c in seq.
InSeq(c, seq) ==
    \E i \in 1 .. Len(seq) : seq[i] = c

\* str.lower() and str.upper() of one character.  The characters outside ASCII
\* are named by code point: U+00E9 (e acute) is lowercase, U+00C9 (E acute) is
\* its uppercase.
LowerChar(c) ==
    IF InSeq(c, ascii_uppercase) THEN ascii_lowercase[IndexOf(ascii_uppercase, c)]
    ELSE IF c = "U+00C9" THEN "U+00E9"
    ELSE c

UpperChar(c) ==
    IF InSeq(c, ascii_lowercase) THEN ascii_uppercase[IndexOf(ascii_lowercase, c)]
    ELSE IF c = "U+00E9" THEN "U+00C9"
    ELSE c

\* str.lower().
Lower(s) ==
    [i \in 1 .. Len(s) |-> LowerChar(s[i])]

\* str.capitalize(): the first character upper-cased, the others lower-cased.
Capitalize(word) ==
    [i \in 1 .. Len(word) |-> IF i = 1 THEN UpperChar(word[i]) ELSE LowerChar(word[i])]

\* str(n) of an int n >= 0: its decimal digits, most significant first.
RECURSIVE Str(_)
Str(n) ==
    IF n < 10
    THEN << string_digits[n + 1] >>
    ELSE Str(n \div 10) \o << string_digits[(n % 10) + 1] >>

\* separator.join(list).
RECURSIVE Join(_, _)
Join(separator, list) ==
    IF list = <<>> THEN <<>>
    ELSE IF Len(list) = 1 THEN list[1]
    ELSE list[1] \o separator \o Join(separator, Tail(list))

\* The sequences r with r[i] in S[i] for every i.
RECURSIVE ProdSeq(_)
ProdSeq(S) ==
    IF S = <<>> THEN {<<>>}
    ELSE {<<x>> \o t : x \in Head(S), t \in ProdSeq(Tail(S))}

\* The sets of at most MaxFree of the `count` draws of one call.
FreeDraws(count) ==
    {G \in SUBSET (1 .. count) : Cardinality(G) <= MaxFree}

\* The outcomes of the draws of one call, the p-th being secrets.randbelow(ns[p])
\* (secrets.choice(seq) is seq[secrets.randbelow(len(seq))]), when the draws
\* of F range over all their outcomes.
Outcomes(ns, F) ==
    ProdSeq([p \in 1 .. Len(ns) |-> IF p \in F THEN randbelow(ns[p]) ELSE {0, ns[p] - 1}])

\* range(length) iterations, each drawing secrets.choice(pool).
ChoiceDraws(pool, length) ==
    [i \in 1 .. length |-> Len(pool)]

\* ------------------------------------------------------------ the generator

\* No dict was returned.
NoAnalysis ==
    [none |-> TRUE]

\* The fields __init__ sets (lines 28-32).
InitFields ==
    /\ lowercase = ascii_lowercase
    /\ uppercase = ascii_uppercase
    /\ digits = string_digits
    /\ special_chars =
         <<"!", "@", "#", "$", "%", "^", "&", "*", "(", ")", "_", "+", "-", "=", "[", "]", "{", "}", "|", ";", ":", ",", ".", "<", ">", "?">>

\* A caller enters the method name with the arguments a.
Called(name, a) ==
    /\ InitFields
    /\ pc = "called"
    /\ op = name
    /\ args = a
    /\ char_pool = <<>>
    /\ password = <<>>
    /\ analysis = NoAnalysis
    /\ error = ""
    /\ log = <<>>

\* The arguments a caller passes.
Lengths == -1 .. MaxLen

CharPoolAlwaysSpecial(use_lowercase, use_uppercase, use_digits, use_special, exclude_similar) ==
    LET lower_chars == IF exclude_similar
                       THEN Replace(Replace(lowercase, "l"), "o")
                       ELSE lowercase
        upper_chars == IF exclude_similar
                       THEN Replace(Replace(uppercase, "I"), "O")
                       ELSE uppercase
        digit_chars == IF exclude_similar
                       THEN Replace(Replace(digits, "0"), "1")
                       ELSE digits
        p1 == IF use_lowercase THEN lower_chars ELSE <<>>
        p2 == IF use_uppercase THEN p1 \o upper_chars ELSE p1
        p3 == IF use_digits THEN p2 \o digit_chars ELSE p2
    IN  p3 \o special_chars

CharPoolDigitsKept(use_lowercase, use_uppercase, use_digits, use_special, exclude_similar) ==
    LET lower_chars == IF exclude_similar
                       THEN Replace(Replace(lowercase, "l"), "o")
                       ELSE lowercase
        upper_chars == IF exclude_similar
                       THEN Replace(Replace(uppercase, "I"), "O")
                       ELSE uppercase
        p1 == IF use_lowercase THEN lower_chars ELSE <<>>
        p2 == IF use_uppercase THEN p1 \o upper_chars ELSE p1
        p3 == IF use_digits THEN p2 \o digits ELSE p2
    IN  IF use_special THEN p3 \o special_chars ELSE p3

\* char_pool as lines 61-82 build it.
CharPool(use_lowercase, use_uppercase, use_digits, use_special, exclude_similar) ==
    LET lower_chars == IF exclude_similar
                       THEN Replace(Replace(lowercase, "l"), "o")
                       ELSE lowercase
        upper_chars == IF exclude_similar
                       THEN Replace(Replace(uppercase, "I"), "O")
                       ELSE uppercase
        digit_chars == IF exclude_similar
                       THEN Replace(Replace(digits, "0"), "1")
                       ELSE digits
        p1 == IF use_lowercase THEN lower_chars ELSE <<>>
        p2 == IF use_uppercase THEN p1 \o upper_chars ELSE p1
        p3 == IF use_digits THEN p2 \o digit_chars ELSE p2
    IN  IF use_special THEN p3 \o special_chars ELSE p3

\* The call ends by raising ValueError(msg): nothing is returned.
Raise(msg, pool) ==
    /\ pc' = "raised"
    /\ error' = msg
    /\ char_pool' = pool
    /\ UNCHANGED << fields, op, args, password, analysis, log >>

ReturnStrKeepsPool(s, pool) ==
    /\ pc' = "returned"
    /\ password' = s
    /\ char_pool' = pool
    /\ special_chars' = pool
    /\ UNCHANGED << lowercase, uppercase, digits, op, args, analysis, error, log >>

ReturnStrRejectsEmpty(s, pool) ==
    /\ pc' = IF s = <<>> THEN "raised" ELSE "returned"
    /\ error' = IF s = <<>> THEN "Password length must be at least 1" ELSE error
    /\ password' = s
    /\ char_pool' = pool
    /\ UNCHANGED << fields, op, args, analysis, log >>

\* The call ends by returning the str s.
ReturnStr(s, pool) ==
    /\ pc' = "returned"
    /\ password' = s
    /\ char_pool' = pool
    /\ UNCHANGED << fields, op, args, analysis, error, log >>

GenerateArgs ==
    [length : Lengths, use_lowercase : BOOLEAN, use_uppercase : BOOLEAN,
     use_digits : BOOLEAN, use_special : BOOLEAN, exclude_similar : BOOLEAN]

LengthBelowZero(length) ==
    length < 0

\* The test of line 58.
LengthInvalid(length) ==
    length < 1

generate_password ==
    /\ pc = "called"
    /\ op = "generate_password"
    /\ LET pool == CharPool(args.use_lowercase, args.use_uppercase, args.use_digits,
                            args.use_special, args.exclude_similar)
       IN  IF LengthInvalid(args.length)
           THEN Raise("Password length must be at least 1", <<>>)
           ELSE IF pool = <<>>
           THEN Raise("At least one character type must be selected", pool)
           ELSE \E F \in FreeDraws(args.length) :
                \E r \in Outcomes(ChoiceDraws(pool, args.length), F) :
                   ReturnStr(JoinChoices(pool, args.length, r), pool)

InitGenerate ==
    \E a \in GenerateArgs : Called("generate_password", a)

SpecGenerate == InitGenerate /\ [][generate_password]_vars

PinPoolAlnum ==
    lowercase \o digits

\* The sequence generate_pin draws from (line 130).
PinPool ==
    digits

PinArgs ==
    [length : -1 .. MaxPin]

generate_pin ==
    /\ pc = "called"
    /\ op = "generate_pin"
    /\ \E F \in FreeDraws(args.length) :
       \E r \in Outcomes(ChoiceDraws(PinPool, args.length), F) :
          ReturnStr(JoinChoices(PinPool, args.length, r), PinPool)

InitPin ==
    \E a \in PinArgs : Called("generate_pin", a)

SpecPin == InitPin /\ [][generate_pin]_vars

AlphaPoolFallbackUpper(use_uppercase, use_lowercase) ==
    LET p1 == IF use_lowercase THEN lowercase ELSE <<>>
        p2 == IF use_uppercase THEN p1 \o uppercase ELSE p1
    IN  IF p2 = <<>> THEN uppercase ELSE p2

\* char_pool as lines 144-152 build it.
AlphaPool(use_uppercase, use_lowercase) ==
    LET p1 == IF use_lowercase THEN lowercase ELSE <<>>
        p2 == IF use_uppercase THEN p1 \o uppercase ELSE p1
    IN  IF p2 = <<>> THEN lowercase ELSE p2

AlphabeticArgs ==
    [length : Lengths, use_uppercase : BOOLEAN, use_lowercase : BOOLEAN]

generate_alphabetic_password ==
    /\ pc = "called"
    /\ op = "generate_alphabetic_password"
    /\ LET pool == AlphaPool(args.use_uppercase, args.use_lowercase)
       IN  \E F \in FreeDraws(args.length) :
           \E r \in Outcomes(ChoiceDraws(pool, args.length), F) :
              ReturnStr(JoinChoices(pool, args.length, r), pool)

InitAlphabetic ==
    \E a \in AlphabeticArgs : Called("generate_alphabetic_password", a)

SpecAlphabetic == InitAlphabetic /\ [][generate_alphabetic_password]_vars

\* The local list of lines 102-109.
words ==
    << <<"a", "p", "p", "l", "e">>,
       <<"b", "e", "a", "c", "h">>,
       <<"c", "l", "o", "u", "d">>,
       <<"d", "a", "n", "c", "e">>,
       <<"e", "a", "g", "l", "e">>,
       <<"f", "l", "a", "m", "e">>,
       <<"g", "r", "e", "e", "n">>,
       <<"h", "o", "u", "s", "e">>,
       <<"i", "s", "l", "a", "n", "d">>,
       <<"j", "u", "n", "g", "l", "e">>,
       <<"k", "n", "i", "g", "h", "t">>,
       <<"l", "e", "m", "o", "n">>,
       <<"m", "u", "s", "i", "c">>,
       <<"n", "i", "g", "h", "t">>,
       <<"o", "c", "e", "a", "n">>,
       <<"p", "e", "a", "c", "e">>,
       <<"q", "u", "i", "e", "t">>,
       <<"r", "i", "v", "e", "r">>,
       <<"s", "t", "o", "n", "e">>,
       <<"t", "i", "g", "e", "r">>,
       <<"u", "n", "i", "t", "y">>,
       <<"v", "o", "i", "c", "e">>,
       <<"w", "a", "t", "e", "r">>,
       <<"y", "o", "u", "t", "h">>,
       <<"b", "r", "a", "v", "e">>,
       <<"c", "h", "a", "r", "m">>,
       <<"d", "r", "e", "a", "m">>,
       <<"f", "a", "i", "r", "y">>,
       <<"g", "i", "a", "n", "t">>,
       <<"h", "a", "p", "p", "y">>,
       <<"m", "a", "g", "i", "c">>,
       <<"n", "o", "b", "l", "e">>,
       <<"q", "u", "i", "c", "k">>,
       <<"s", "m", "a", "r", "t">>,
       <<"t", "r", "u", "s", "t">>,
       <<"v", "i", "v", "i", "d">>,
       <<"w", "i", "s", "d", "o", "m">>,
       <<"b", "r", "i", "g", "h", "t">>,
       <<"c", "a", "l", "m">>,
       <<"f", "r", "e", "s", "h">>,
       <<"s", "t", "o", "r", "m">>,
       <<"l", "u", "n", "a", "r">>,
       <<"s", "o", "l", "a", "r">>,
       <<"c", "r", "y", "s", "t", "a", "l">>,
       <<"g", "o", "l", "d", "e", "n">>,
       <<"s", "i", "l", "v", "e", "r">>,
       <<"f", "o", "r", "e", "s", "t">>,
       <<"m", "o", "u", "n", "t", "a", "i", "n">> >>

Separators ==
    { <<"-">>, <<>>, <<"_", "7">> }

WordCounts == -1 .. MaxWords

MemorableArgs ==
    [num_words : WordCounts, separator : Separators, capitalize_words : BOOLEAN]

\* The draws of one call: range(num_words) draws secrets.choice(words), then
\* secrets.randbelow(100).
MemorableDraws(num_words) ==
    [i \in 1 .. num_words |-> Len(words)] \o << 100 >>

MemorableNumberSeparated(a, r) ==
    LET k == Len(r) - 1
        selected_words == [i \in 1 .. k |-> words[r[i] + 1]]
        capitalized == IF a.capitalize_words
                       THEN [i \in 1 .. k |-> Capitalize(selected_words[i])]
                       ELSE selected_words
        random_num == r[k + 1]
    IN  Join(a.separator, capitalized \o << Str(random_num) >>)

\* The string lines 111-118 build from the draws r.
Memorable(a, r) ==
    LET k == Len(r) - 1
        selected_words == [i \in 1 .. k |-> words[r[i] + 1]]
        capitalized == IF a.capitalize_words
                       THEN [i \in 1 .. k |-> Capitalize(selected_words[i])]
                       ELSE selected_words
        random_num == r[k + 1]
    IN  Join(a.separator, capitalized) \o Str(random_num)

generate_memorable_password ==
    /\ pc = "called"
    /\ op = "generate_memorable_password"
    /\ \E F \in FreeDraws(Len(MemorableDraws(args.num_words))) :
       \E r \in Outcomes(MemorableDraws(args.num_words), F) :
          ReturnStr(Memorable(args, r), <<>>)

InitMemorable ==
    \E a \in MemorableArgs : Called("generate_memorable_password", a)

SpecMemorable == InitMemorable /\ [][generate_memorable_password]_vars

\* ------------------------------------------------------------ the evaluator

\* str.islower(), str.isupper(), str.isdigit() of one character.  They are
\* Unicode predicates: U+0663 (Arabic-Indic digit three) is a digit too.
IsLower(c) ==
    InSeq(c, ascii_lowercase) \/ c = "U+00E9"

IsUpper(c) ==
    InSeq(c, ascii_uppercase) \/ c = "U+00C9"

IsDigit(c) ==
    InSeq(c, string_digits) \/ c = "U+0663"

Max(a, b) ==
    IF a >= b THEN a ELSE b

\* Lines 169-176: the length contribution.
LengthScore(n) ==
    IF n >= 16 THEN 3
    ELSE IF n >= 12 THEN 2
    ELSE IF n >= 8 THEN 1
    ELSE 0

LengthFeedbackNonEmpty(n) ==
    IF n >= 8 \/ n = 0
    THEN <<>>
    ELSE << "Password should be at least 8 characters long" >>

\* Lines 175-176: the feedback of the length test.
LengthFeedback(n) ==
    IF n >= 8
    THEN <<>>
    ELSE << "Password should be at least 8 characters long" >>

MixFeedbackBelow4(char_types) ==
    IF char_types < 4
    THEN << "Use a mix of uppercase, lowercase, numbers, and special characters" >>
    ELSE <<>>

\* Lines 186-187: the feedback of the composition test.
MixFeedback(char_types) ==
    IF char_types < 3
    THEN << "Use a mix of uppercase, lowercase, numbers, and special characters" >>
    ELSE <<>>

\* The list of line 190.
common_patterns ==
    << <<"p", "a", "s", "s", "w", "o", "r", "d">>,
       <<"1", "2", "3", "4", "5", "6">>,
       <<"q", "w", "e", "r", "t", "y">>,
       <<"a", "b", "c", "1", "2", "3">> >>

\* Line 190: password.lower() in [...].
IsCommon(pw) ==
    InSeq(Lower(pw), common_patterns)

PenaltyUnfloored(score) ==
    score - 3

\* Line 191: the penalty.
Penalty(score) ==
    Max(0, score - 3)

LevelFrom6(score) ==
    IF score >= 6 THEN [strength |-> "Very Strong", color |-> "\\033[92m"]
    ELSE IF score >= 5 THEN [strength |-> "Strong", color |-> "\\033[93m"]
    ELSE IF score >= 3 THEN [strength |-> "Medium", color |-> "\\033[94m"]
    ELSE [strength |-> "Weak", color |-> "\\033[91m"]

\* Lines 195-206: strength level and color.
Level(score) ==
    IF score >= 7 THEN [strength |-> "Very Strong", color |-> "\\033[92m"]
    ELSE IF score >= 5 THEN [strength |-> "Strong", color |-> "\\033[93m"]
    ELSE IF score >= 3 THEN [strength |-> "Medium", color |-> "\\033[94m"]
    ELSE [strength |-> "Weak", color |-> "\\033[91m"]

Bit(b) ==
    IF b THEN 1 ELSE 0

\* The dict check_password_strength returns for pw (lines 166-219).
Analyse(pw) ==
    LET score1 == LengthScore(Len(pw))
        feedback1 == LengthFeedback(Len(pw))
        has_lower == \E i \in 1 .. Len(pw) : IsLower(pw[i])
        has_upper == \E i \in 1 .. Len(pw) : IsUpper(pw[i])
        has_digit == \E i \in 1 .. Len(pw) : IsDigit(pw[i])
        has_special == \E i \in 1 .. Len(pw) : InSeq(pw[i], special_chars)
        char_types == Bit(has_lower) + Bit(has_upper) + Bit(has_digit) + Bit(has_special)
        score2 == score1 + char_types
        feedback2 == feedback1 \o MixFeedback(char_types)
        common == IsCommon(pw)
        score == IF common THEN Penalty(score2) ELSE score2
        feedback == IF common
                    THEN Append(feedback2, "Avoid common password patterns")
                    ELSE feedback2
        level == Level(score)
    IN  [strength |-> level.strength,
         color |-> level.color,
         score |-> score,
         max_score |-> 8,
         feedback |-> feedback,
         has_lowercase |-> has_lower,
         has_uppercase |-> has_upper,
         has_digits |-> has_digit,
         has_special |-> has_special,
         length |-> Len(pw)]

check_password_strength ==
    /\ pc = "called"
    /\ op = "check_password_strength"
    /\ pc' = "returned"
    /\ analysis' = Analyse(args.password)
    /\ UNCHANGED << fields, op, args, char_pool, password, error, log >>

\* The passwords a caller passes.
SeedChars ==
    {"k", "K", "4", "#", " "}

PadChars ==
    SeedChars \cup {"U+00E9", "U+00C9", "U+0663"}

ListedSeeds ==
    { <<"p", "a", "s", "s", "w", "o", "r", "d">>,
      <<"P", "a", "s", "s", "w", "o", "r", "d">>,
      <<"P", "A", "S", "S", "W", "O", "R", "D">>,
      <<"p", "A", "s", "S", "w", "O", "r", "D">>,
      <<"1", "2", "3", "4", "5", "6">>,
      <<"q", "w", "e", "r", "t", "y">>,
      <<"Q", "W", "E", "R", "T", "Y">>,
      <<"a", "b", "c", "1", "2", "3">>,
      <<"A", "b", "c", "1", "2", "3">>,
      <<"A", "B", "C", "1", "2", "3">>,
      <<"P", "a", "s", "s", "w", "o", "r", "d", "1", "2", "3", "!">> }

AllChars ==
    {ascii_lowercase[i] : i \in 1 .. Len(ascii_lowercase)}
      \cup {ascii_uppercase[i] : i \in 1 .. Len(ascii_uppercase)}
      \cup {string_digits[i] : i \in 1 .. Len(string_digits)}
      \cup {"!", "@", "#", "$", "%", "^", "&", "*", "(", ")", "_", "+", "-", "=", "[", "]", "{", "}", "|", ";", ":", ",", ".", "<", ">", "?"}
      \cup {"~", "/", "'"}
      \cup PadChars

Seeds ==
    ListedSeeds
      \cup {<<c>> : c \in AllChars}
      \cup UNION {[1 .. n -> SeedChars] : n \in 0 .. MaxSeed}

PasswordInputs ==
    {seed \o [i \in 1 .. n |-> c] : seed \in Seeds, c \in PadChars, n \in 0 .. MaxPad}

InitCheck ==
    \E pw \in PasswordInputs : Called("check_password_strength", [password |-> pw])

SpecCheck == InitCheck /\ [][check_password_strength]_vars

\* ------------------------------------------------------------- the whole

Init ==
    \/ InitGenerate
    \/ InitMemorable
    \/ InitPin
    \/ InitAlphabetic
    \/ InitCheck

Next ==
    \/ generate_password
    \/ generate_memorable_password
    \/ generate_pin
    \/ generate_alphabetic_password
    \/ check_password_strength

Spec == Init /\ [][Next]_vars

\* The four generating methods alone.
InitGenerators ==
    \/ InitGenerate
    \/ InitMemorable
    \/ InitPin
    \/ InitAlphabetic

NextGenerators ==
    \/ generate_password
    \/ generate_memorable_password
    \/ generate_pin
    \/ generate_alphabetic_password

SpecGenerators == InitGenerators /\ [][NextGenerators]_vars

\* --------------------------------------------------- calls made in a row

\* No method is running: the generator as __init__ left it, or as the calls
\* made so far left it.
NoCall ==
    /\ pc = "idle"
    /\ op = "none"
    /\ args = [none |-> TRUE]
    /\ char_pool = <<>>
    /\ password = <<>>
    /\ analysis = NoAnalysis
    /\ error = ""

InitIdle ==
    /\ InitFields
    /\ NoCall
    /\ log = <<>>

\* The method is done (it returned or raised): the caller has its result.
Return ==
    /\ pc \in {"returned", "raised"}
    /\ log' = Append(log, [op |-> op,
                           password |-> IF op = "check_password_strength"
                                        THEN args.password ELSE <<>>,
                           report |-> analysis])
    /\ pc' = "idle"
    /\ op' = "none"
    /\ args' = [none |-> TRUE]
    /\ char_pool' = <<>>
    /\ password' = <<>>
    /\ analysis' = NoAnalysis
    /\ error' = ""
    /\ UNCHANGED fields

\* The caller enters the method name with the arguments a, on the generator
\* as it stands.
Enter(name, a) ==
    /\ pc' = "called"
    /\ op' = name
    /\ args' = a
    /\ UNCHANGED << fields, char_pool, password, analysis, error, log >>

\* The passwords and arguments of the calls made in a row.
CallPasswords ==
    { <<>>,
      <<"#">>,
      <<"P", "a", "s", "s", "w", "o", "r", "d", "1", "2", "3", "!">> }

CallLengths == {0, 1}

Call ==
    /\ pc = "idle"
    /\ Len(log) < MaxCalls
    /\ \/ \E n \in CallLengths, x \in BOOLEAN :
            Enter("generate_password",
                  [length |-> n, use_lowercase |-> TRUE, use_uppercase |-> TRUE,
                   use_digits |-> TRUE, use_special |-> TRUE, exclude_similar |-> x])
       \/ \E n \in CallLengths :
            Enter("generate_memorable_password",
                  [num_words |-> n, separator |-> <<"-">>, capitalize_words |-> TRUE])
       \/ \E n \in CallLengths :
            Enter("generate_pin", [length |-> n])
       \/ \E n \in CallLengths :
            Enter("generate_alphabetic_password",
                  [length |-> n, use_uppercase |-> TRUE, use_lowercase |-> TRUE])
       \/ \E pw \in CallPasswords :
            Enter("check_password_strength", [password |-> pw])

NextCalls ==
    \/ Call
    \/ generate_password
    \/ generate_memorable_password
    \/ generate_pin
    \/ generate_alphabetic_password
    \/ check_password_strength
    \/ Return

SpecCalls == InitIdle /\ [][NextCalls]_vars

\* ------------------------------------------------------ the command line

\* What parse_args() leaves of the options: generate is "None" without
\* --generate, check.given is FALSE (args.check is None) without --check, and
\* length is the --length given (the default is 16).
MainArgs ==
    [generate : {"None", "strong", "pin", "alpha", "memorable"},
     length   : Lengths,
     check    : {[given |-> FALSE, value |-> <<>>]}
                \cup {[given |-> TRUE, value |-> pw] : pw \in CallPasswords}]

\* bool(args.check): None and the empty str are false.
Truthy(check) ==
    check.given /\ check.value # <<>>

Min(a, b) ==
    IF a < b THEN a ELSE b

\* The keyword defaults of line 90, which the call of line 567 takes.
MainMemorable ==
    [num_words |-> 4, separator |-> <<"-">>, capitalize_words |-> TRUE]

\* One run of main(): pc is "returned" at the return of line 558 (analysis
\* printed) or 570 (password printed), "raised" when the ValueError of
\* generate_password leaves main, "interactive" when gui.run() is entered.
main ==
    /\ pc = "called"
    /\ op = "main"
    /\ IF args.generate # "None" \/ Truthy(args.check)
       THEN IF Truthy(args.check)
            THEN /\ pc' = "returned"
                 /\ analysis' = Analyse(args.check.value)
                 /\ UNCHANGED << fields, op, args, char_pool, password, error, log >>
            ELSE CASE args.generate = "strong" ->
                      LET pool == CharPool(TRUE, TRUE, TRUE, TRUE, FALSE)
                      IN  IF LengthInvalid(args.length)
                          THEN Raise("Password length must be at least 1", <<>>)
                          ELSE \E F \in FreeDraws(args.length) :
                               \E r \in Outcomes(ChoiceDraws(pool, args.length), F) :
                                  ReturnStr(JoinChoices(pool, args.length, r), pool)
                   [] args.generate = "pin" ->
                      LET length == Min(args.length, 10)
                      IN  \E F \in FreeDraws(length) :
                          \E r \in Outcomes(ChoiceDraws(PinPool, length), F) :
                             ReturnStr(JoinChoices(PinPool, length, r), PinPool)
                   [] args.generate = "alpha" ->
                      LET pool == AlphaPool(TRUE, TRUE)
                      IN  \E F \in FreeDraws(args.length) :
                          \E r \in Outcomes(ChoiceDraws(pool, args.length), F) :
                             ReturnStr(JoinChoices(pool, args.length, r), pool)
                   [] args.generate = "memorable" ->
                      \E F \in FreeDraws(Len(MemorableDraws(MainMemorable.num_words))) :
                      \E r \in Outcomes(MemorableDraws(MainMemorable.num_words), F) :
                         ReturnStr(Memorable(MainMemorable, r), <<>>)
       ELSE /\ pc' = "interactive"
            /\ UNCHANGED << fields, op, args, char_pool, password, analysis, error, log >>

InitMain ==
    \E a \in MainArgs : Called("main", a)

SpecMain == InitMain /\ [][main]_vars

\* ------------------------------------------------- the generator's claims

Range(s) ==
    {s[i] : i \in 1 .. Len(s)}

LowercaseClass == Range(ascii_lowercase)

UppercaseClass == Range(ascii_uppercase)

DigitClass == Range(string_digits)

SpecialLiteral ==
    <<"!", "@", "#", "$", "%", "^", "&", "*", "(", ")", "_", "+", "-", "=", "[", "]", "{", "}", "|", ";", ":", ",", ".", "<", ">", "?">>

SpecialClass == Range(SpecialLiteral)

Ambiguous == {"l", "o", "I", "O", "0", "1"}

AnyClass(a) ==
    a.use_lowercase \/ a.use_uppercase \/ a.use_digits \/ a.use_special

\* The union of the classes a request names, after the exclusion rule.
Requested(a) ==
    LET alnum == (IF a.use_lowercase THEN LowercaseClass ELSE {})
                   \cup (IF a.use_uppercase THEN UppercaseClass ELSE {})
                   \cup (IF a.use_digits THEN DigitClass ELSE {})
    IN  (IF a.exclude_similar THEN alnum \ Ambiguous ELSE alnum)
          \cup (IF a.use_special THEN SpecialClass ELSE {})

Finished == pc # "called"

\* C1: a generate_password call with length >= 1 and at least one class flag
\* returns a string of exactly `length` characters, each of the union of the
\* requested classes after the exclusion rule, whatever the draws yield.
C1_LengthAndClasses ==
    (op = "generate_password" /\ Finished /\ args.length >= 1 /\ AnyClass(args))
        => /\ pc = "returned"
           /\ Len(password) = args.length
           /\ \A i \in 1 .. Len(password) : password[i] \in Requested(args)

C1_Witness ==
    /\ op = "generate_password" /\ pc = "returned"
    /\ args.length = 2 /\ ~args.use_digits /\ args.use_special
    /\ password[1] \in LowercaseClass
    /\ password[2] \in SpecialClass

\* C2: generate_password raises ValueError, and returns no string, exactly
\* when length < 1 or no class flag is set; past the length test the pool is
\* empty exactly when no class is selected, whatever exclude_similar is.
C2_RaisesExactly ==
    (op = "generate_password" /\ Finished)
        => /\ (pc = "raised") <=> (args.length < 1 \/ ~AnyClass(args))
           /\ (pc = "raised") => (password = <<>> /\ error # "")
           /\ (pc = "returned") => error = ""
           /\ (args.length >= 1) => ((char_pool = <<>>) <=> ~AnyClass(args))

C2_Witness ==
    /\ op = "generate_password" /\ pc = "raised"
    /\ args.length >= 1 /\ args.exclude_similar
    /\ error = "At least one character type must be selected"

\* C3: with exclude_similar set, no returned password holds one of
\* l, o, I, O, 0, 1, and the special characters are pooled whole and in order
\* whether or not the flag is set.
C3_NoAmbiguous ==
    (op = "generate_password" /\ pc = "returned")
        => /\ args.exclude_similar
                => \A i \in 1 .. Len(password) : password[i] \notin Ambiguous
           /\ args.use_special
                => /\ Len(char_pool) >= Len(SpecialLiteral)
                   /\ SubSeq(char_pool, Len(char_pool) - Len(SpecialLiteral) + 1,
                             Len(char_pool)) = SpecialLiteral

C3_Witness ==
    /\ op = "generate_password" /\ pc = "returned"
    /\ args.exclude_similar /\ AnyClass(args)
    /\ args.use_lowercase /\ args.use_uppercase /\ args.use_digits /\ args.use_special
    /\ password = <<"m", "?">>

\* C4: generate_pin(n), n >= 0, returns exactly n characters, each a decimal
\* digit, drawn from all ten digits: none is excluded.
C4_PinDigits ==
    (op = "generate_pin" /\ Finished /\ args.length >= 0)
        => /\ pc = "returned"
           /\ Len(password) = args.length
           /\ \A i \in 1 .. Len(password) : password[i] \in DigitClass
           /\ Range(char_pool) = DigitClass

C4_Witness ==
    /\ op = "generate_pin" /\ pc = "returned"
    /\ args.length = 2
    /\ password = <<"0", "1">>

\* C5: generate_alphabetic_password(n, False, False) does not fail and
\* returns n lowercase letters; with a flag set it returns n characters of the
\* selected alphabetic classes only.
C5_AlphabeticFallback ==
    (op = "generate_alphabetic_password" /\ Finished /\ args.length >= 0)
        => /\ pc = "returned"
           /\ error = ""
           /\ Len(password) = args.length
           /\ \A i \in 1 .. Len(password) :
                 password[i] \in
                    IF ~args.use_uppercase /\ ~args.use_lowercase
                    THEN LowercaseClass
                    ELSE (IF args.use_lowercase THEN LowercaseClass ELSE {})
                           \cup (IF args.use_uppercase THEN UppercaseClass ELSE {})

C5_Witness ==
    /\ op = "generate_alphabetic_password" /\ pc = "returned"
    /\ ~args.use_uppercase /\ ~args.use_lowercase
    /\ args.length = 2
    /\ password = <<"l", "z">>

IsPrefix(p, s) ==
    Len(p) <= Len(s) /\ SubSeq(s, 1, Len(p)) = p

Drop(s, n) ==
    SubSeq(s, n + 1, Len(s))

\* The decimal rendering, without padding, of a number of 0..99.
IsSuffixNumber(t) ==
    /\ Len(t) \in {1, 2}
    /\ \A i \in 1 .. Len(t) : t[i] \in DigitClass
    /\ Len(t) = 2 => t[1] # "0"

\* The listed words, and the listed words with the first letter capitalized.
PlainWords ==
    Range(words)

CapitalizedWords ==
    { << UpperChar(w[1]) >> \o Tail(w) : w \in Range(words) }

\* s is k >= 1 word forms joined by sep and followed at once by the number.
RECURSIVE IsMemorable(_, _, _, _)
IsMemorable(s, k, sep, forms) ==
    \E w \in forms :
       /\ IsPrefix(w, s)
       /\ IF k = 1
          THEN IsSuffixNumber(Drop(s, Len(w)))
          ELSE /\ IsPrefix(sep, Drop(s, Len(w)))
               /\ IsMemorable(Drop(s, Len(w) + Len(sep)), k - 1, sep, forms)

\* C6: for num_words >= 1, generate_memorable_password returns num_words
\* listed words (capitalized when capitalize_words is set) joined by the
\* separator and followed, with no separator, by the unpadded decimal rendering
\* of a number of 0..99.
C6_MemorableForm ==
    (op = "generate_memorable_password" /\ Finished /\ args.num_words >= 1)
        => /\ pc = "returned"
           /\ IF args.capitalize_words
              THEN IsMemorable(password, args.num_words, args.separator, CapitalizedWords)
              ELSE IsMemorable(password, args.num_words, args.separator, PlainWords)

C6_Witness ==
    /\ op = "generate_memorable_password" /\ pc = "returned"
    /\ args.num_words = 2 /\ args.capitalize_words /\ args.separator = <<"-">>
    /\ password = <<"M", "o", "u", "n", "t", "a", "i", "n", "-",
                    "T", "i", "g", "e", "r", "0">>

\* ------------------------------------------------- the evaluator's claims

LowerLetters == LowercaseClass \cup {"U+00E9"}

UpperLetters == UppercaseClass \cup {"U+00C9"}

DigitChars == DigitClass \cup {"U+0663"}

Blocklist ==
    { <<"p", "a", "s", "s", "w", "o", "r", "d">>,
      <<"1", "2", "3", "4", "5", "6">>,
      <<"q", "w", "e", "r", "t", "y">>,
      <<"a", "b", "c", "1", "2", "3">> }

Checked == op = "check_password_strength" /\ pc = "returned"

LengthPart(pw) ==
    IF Len(pw) >= 16 THEN 3 ELSE IF Len(pw) >= 12 THEN 2 ELSE IF Len(pw) >= 8 THEN 1 ELSE 0

ClassesPresent(pw) ==
    Cardinality({K \in {LowerLetters, UpperLetters, DigitChars, SpecialClass} :
                    Range(pw) \cap K # {}})

Blocked(pw) ==
    Lower(pw) \in Blocklist

\* C7: the score is L + C (length part plus number of classes present), and
\* max(0, L + C - 3), never negative, when the lowercased password is one of
\* the four listed ones; "Password123!" has the four flags set and scores 6,
\* "password" scores 0.
C7_Score ==
    Checked
        => LET pw == args.password
               sum == LengthPart(pw) + ClassesPresent(pw)
           IN  /\ analysis.score = IF Blocked(pw) THEN Max(0, sum - 3) ELSE sum
               /\ analysis.score >= 0
               /\ pw = <<"P", "a", "s", "s", "w", "o", "r", "d", "1", "2", "3", "!">>
                    => /\ analysis.has_lowercase /\ analysis.has_uppercase
                       /\ analysis.has_digits /\ analysis.has_special
                       /\ analysis.length = 12
                       /\ analysis.score = 6
               /\ pw = <<"p", "a", "s", "s", "w", "o", "r", "d">>
                    => analysis.score = 0

C7_Witness ==
    /\ Checked
    /\ args.password = <<"p", "A", "s", "S", "w", "O", "r", "D">>
    /\ analysis.score = 0
    /\ analysis.has_lowercase /\ analysis.has_uppercase

\* C8: the label is a function of the final score (>= 7 Very Strong, >= 5
\* Strong, >= 3 Medium, else Weak); a password is Very Strong exactly when its
\* length is >= 16 and the four classes are present; max_score is 8 and no
\* score reaches 8.
C8_Label ==
    Checked
        => /\ analysis.strength =
                 IF analysis.score >= 7 THEN "Very Strong"
                 ELSE IF analysis.score >= 5 THEN "Strong"
                 ELSE IF analysis.score >= 3 THEN "Medium"
                 ELSE "Weak"
           /\ (analysis.strength = "Very Strong")
                 <=> (Len(args.password) >= 16 /\ ClassesPresent(args.password) = 4)
           /\ analysis.max_score = 8
           /\ analysis.score < 8

C8_Witness ==
    /\ Checked
    /\ analysis.strength = "Very Strong"
    /\ Len(args.password) = 16
    /\ analysis.score = 7

ShortMessage == "Password should be at least 8 characters long"

MixMessage == "Use a mix of uppercase, lowercase, numbers, and special characters"

CommonMessage == "Avoid common password patterns"

\* C9: the feedback holds the short-length message exactly when length < 8,
\* the mix message exactly when fewer than 3 classes are present, the
\* common-pattern message exactly when the lowercased password is listed; each
\* at most once and in that order.
C9_Feedback ==
    Checked
        => LET pw == args.password
           IN  analysis.feedback =
                  (IF Len(pw) < 8 THEN << ShortMessage >> ELSE <<>>)
                    \o (IF ClassesPresent(pw) < 3 THEN << MixMessage >> ELSE <<>>)
                    \o (IF Blocked(pw) THEN << CommonMessage >> ELSE <<>>)

C9_Witness ==
    /\ Checked
    /\ args.password = <<"Q", "W", "E", "R", "T", "Y">>
    /\ analysis.feedback = << ShortMessage, MixMessage, CommonMessage >>

\* C10: check_password_strength returns for every string; for the empty string
\* the report has length 0, no composition flag, score 0, label Weak and the
\* short-length message.
C10_EmptyPassword ==
    /\ (op = "check_password_strength" /\ Finished)
          => (pc = "returned" /\ error = "" /\ analysis.length = Len(args.password))
    /\ (Checked /\ args.password = <<>>)
          => /\ analysis.length = 0
             /\ ~analysis.has_lowercase /\ ~analysis.has_uppercase
             /\ ~analysis.has_digits /\ ~analysis.has_special
             /\ analysis.score = 0
             /\ analysis.strength = "Weak"
             /\ \E i \in 1 .. Len(analysis.feedback) : analysis.feedback[i] = ShortMessage

C10_Witness ==
    /\ Checked
    /\ args.password = <<>>
    /\ analysis.length = 0
    /\ Len(analysis.feedback) = 2

\* ------------------------------------------------- the claims on calls

Evaluations == {i \in 1 .. Len(log) : log[i].op = "check_password_strength"}

\* C11: two check_password_strength calls on the same string, whatever calls
\* are made between them, return the same score, label, flags, length and
\* feedback list, and no step of any call changes the character classes or
\* the special characters of the generator.
C11_Deterministic ==
    /\ [](\A i, j \in Evaluations :
             log[i].password = log[j].password => log[i].report = log[j].report)
    /\ [][fields' = fields]_vars

C11_Witness ==
    /\ Len(log) = 3
    /\ log[1].op = "check_password_strength"
    /\ log[2].op = "generate_password"
    /\ log[3].op = "check_password_strength"
    /\ log[1].password = <<"#">>
    /\ log[3].password = <<"#">>
    /\ log[3].report.has_special

\* ------------------------------------------- the claims on the command line

GenerateGiven == args.generate # "None"
CheckGiven == args.check.given
MainDone == op = "main" /\ pc # "called"
Analysed == "score" \in DOMAIN analysis
Emitted == pc = "returned" /\ ~Analysed
Interactive == pc = "interactive"

\* C12: one invocation never both analyses a supplied password and emits a
\* generated password; given a generate flag it emits a generated password;
\* given a check flag it produces a strength analysis; the interactive flow
\* is entered if and only if neither flag is given.
C12_OneMode ==
    MainDone =>
        /\ ~(Analysed /\ Emitted)
        /\ GenerateGiven => Emitted
        /\ CheckGiven => Analysed
        /\ Interactive <=> (~GenerateGiven /\ ~CheckGiven)

\* ------------------------------------------------- the claims on errors

Raised == pc = "raised"
Returned == pc = "returned"

\* C13: a ValueError comes only from generate_password, which raises for
\* every length below 1; generate_pin, generate_alphabetic_password and
\* generate_memorable_password return a str for every input: the empty str
\* for a length below 1, the number alone for a word count below 1.
C13_OnlyGenerateRaises ==
    Finished =>
        /\ Raised => op = "generate_password"
        /\ op = "generate_password" /\ args.length < 1 => Raised
        /\ op \in {"generate_pin", "generate_alphabetic_password"} =>
              /\ Returned
              /\ args.length < 1 => password = <<>>
        /\ op = "generate_memorable_password" =>
              /\ Returned
              /\ args.num_words < 1 => IsSuffixNumber(password)

C13_Witness ==
    /\ op = "generate_memorable_password"
    /\ Returned
    /\ args.num_words = -1
    /\ args.separator = <<"-">>
    /\ password = <<"4", "2">>

====
